---- MODULE Spec2Model ----
(***************************************************************************)
(* Model of check-tx.py: the script body (argument checks, existence       *)
(* phase, receipt phase, debug_transaction, --logs printing) as a          *)
(* sequential state machine.  The answers of the RPC endpoints and of the  *)
(* settlement chain are inputs fixed in the initial state; every network   *)
(* call and every line printed is recorded in order.  Responses are        *)
(* well-formed and no library call raises: log lists are non-empty.        *)
(***************************************************************************)
EXTENDS Integers, Sequences, FiniteSets, TLC

(* ------------------------------ bounds -------------------------------- *)
\* number of entries of the rpc section of config.toml
NumEndpoints == 2
\* longest solanaTransactions list of an extended receipt
MaxSubTx == 2

(* --------------------------- program constants ------------------------ *)
\* len(args.tx_hash) == 66
HashLen == 66

(* ------------------------------ inputs -------------------------------- *)
\* config["rpc"]: an ordered mapping; endpoint names in configuration order
rpc == [n \in 1..NumEndpoints |-> n]
\* config["solana"]: the settlement networks of the configuration
solana == {"mainnet", "devnet"}
Networks == {"mainnet", "localnet"}
Sigs == {"s1", "s2"}

HexDigits == {"0", "1", "2", "3", "4", "5", "6", "7", "8", "9",
              "a", "b", "c", "d", "e", "f", "A", "B", "C", "D", "E", "F"}

RECURSIVE Rep(_, _)
Rep(c, n) == IF n <= 0 THEN <<>> ELSE <<c>> \o Rep(c, n - 1)

\* command-line hashes: a prefix, a run of the digit A, one last character
HashPrefixes == {<<"0", "x">>, <<"0", "X">>, <<>>}
Hashes == {p \o Rep("A", n - 1) \o <<t>> :
             p \in HashPrefixes, n \in (HashLen - 3)..HashLen, t \in {"f", "g"}}
GoodHash == <<"0", "x">> \o Rep("A", HashLen - 3) \o <<"f">>

\* log_messages of a settlement transaction: lines are character sequences
LogChoices == { << <<"a">> >>,
                << <<"a">>, <<"b">> >>,
                << <<"a">>, <<"c", "\n", "d">> >>,
                << <<"b">>, <<>> >> }
NoDetails == [found |-> FALSE, log_messages |-> <<>>]
Details == {NoDetails} \cup [found : {TRUE}, log_messages : LogChoices]

SubTx == [solanaTransactionIsSuccess : BOOLEAN, solanaTransactionSignature : Sigs]
SubTxLists == UNION {[1..n -> SubTx] : n \in 0..MaxSubTx}
NoResult == [hasResult |-> FALSE, status |-> "0x1", solanaTransactions |-> <<>>]
Responses == {NoResult} \cup
             [hasResult : {TRUE}, status : {"0x0", "0x1"}, solanaTransactions : SubTxLists]

StaleLog == <<"o", "l", "d">>

VARIABLES
  args_network, tx_hash, args_logs,            \* parsed command line
  txKnown, rcKnown, neonResponse, solanaDetails, \* what the servers answer
  logsDir, files, files0,                      \* the logs directory, and as found
  pc, idx, transaction_operator, receipt_operator,
  status, failed_sol_tx, iterated, k, reasons, \* locals of debug_transaction
  out, calls, writes, exitCode                 \* observable history

vars == <<args_network, tx_hash, args_logs, txKnown, rcKnown, neonResponse,
          solanaDetails, logsDir, files, files0, pc, idx, transaction_operator,
          receipt_operator, status, failed_sol_tx, iterated, k, reasons,
          out, calls, writes, exitCode>>

inputs == <<args_network, tx_hash, args_logs, txKnown, rcKnown, neonResponse,
            solanaDetails, files0>>
debugLocals == <<status, failed_sol_tx, iterated, k, reasons>>

None == 0

(* ----------------------------- helpers -------------------------------- *)
\* one printed line
Line(tag) == [tag |-> tag, ep |-> None, result |-> "", sigs |-> <<>>,
              text |-> <<>>, n |-> 0, files |-> {}]
\* one network call
Call(op, url, arg) == [op |-> op, url |-> url, arg |-> arg]

\* eth_utils.is_hex: an optional 0x / 0X prefix followed by hex digits only
is_hex(value) ==
  LET prefixed == Len(value) >= 2 /\ value[1] = "0" /\ value[2] \in {"x", "X"}
      body == IF prefixed THEN SubSeq(value, 3, Len(value)) ELSE value
  IN \A j \in 1..Len(body) : body[j] \in HexDigits

\* the test of line 107
ValidHash(h) == is_hex(h) /\ Len(h) = HashLen

\* w.eth.get_transaction(...) is not None
check_tx_exist(h, operator_url) == txKnown[operator_url]
\* w.eth.get_transaction_receipt(...) is not None
check_receipt_exist(h, operator_url) == rcKnown[operator_url]

\* mutant of StatusOf: the comparison of line 35 inverted away, every receipt failed
StatusAlwaysFailed(tx_info) == "Failed"

\* "Failed" if tx_info["status"] == '0x0' else "Success"
StatusOf(tx_info) == IF tx_info.status = "0x0" THEN "Failed" ELSE "Success"

\* mutant of IsFailedSubTx: the filter of line 51 lost, every entry taken
EverySubTxFailed(sol_tx) == TRUE

\* sol_tx["solanaTransactionIsSuccess"] is False
IsFailedSubTx(sol_tx) == sol_tx.solanaTransactionIsSuccess = FALSE

\* the list built by lines 48-52
RECURSIVE FailedSignatures(_)
FailedSignatures(txs) ==
  IF txs = <<>> THEN <<>>
  ELSE (IF IsFailedSubTx(Head(txs))
          THEN <<Head(txs).solanaTransactionSignature>> ELSE <<>>)
       \o FailedSignatures(Tail(txs))

\* "\n".join(logs)
RECURSIVE Join(_)
Join(logs) ==
  IF logs = <<>> THEN <<>>
  ELSE IF Len(logs) = 1 THEN logs[1]
  ELSE logs[1] \o <<"\n">> \o Join(Tail(logs))

\* mutant of LastLog: logs[0] instead of logs[-1]
FirstLog(logs) == logs[1]

\* logs[-1]
LastLog(logs) == logs[Len(logs)]

\* reasons[key] = value on an insertion-ordered dict
DictSet(d, key, value) ==
  IF \E j \in 1..Len(d) : d[j][1] = key
    THEN [j \in 1..Len(d) |-> IF d[j][1] = key THEN <<key, value>> ELSE d[j]]
    ELSE Append(d, <<key, value>>)

\* open(filename, "w") ... f.write(content)
WriteFile(fs, name, content) ==
  [s \in DOMAIN fs \cup {name} |-> IF s = name THEN content ELSE fs[s]]

RECURSIVE ReasonLines(_)
ReasonLines(d) ==
  IF d = <<>> THEN <<>>
  ELSE <<[Line("reason") EXCEPT !.sigs = <<d[1][1]>>, !.text = d[1][2]]>>
       \o ReasonLines(Tail(d))

(* ------------------------------- Init --------------------------------- *)
Start ==
  /\ pc = "main"
  /\ idx = 0
  /\ transaction_operator = None
  /\ receipt_operator = None
  /\ status = ""
  /\ failed_sol_tx = [kind |-> "list", val |-> <<>>]
  /\ iterated = <<>>
  /\ k = 0
  /\ reasons = <<>>
  /\ out = <<>>
  /\ calls = <<>>
  /\ writes = <<>>
  /\ exitCode = -1

Disk ==
  /\ \/ logsDir = FALSE /\ files = <<>>
     \/ logsDir = TRUE /\ files \in {<<>>, [s \in {"s1"} |-> StaleLog]}
  /\ files0 = files

\* the whole script, few receipts
Init ==
  /\ args_network \in Networks
  /\ tx_hash \in Hashes
  /\ args_logs \in BOOLEAN
  /\ txKnown \in [1..NumEndpoints -> BOOLEAN]
  /\ rcKnown \in [1..NumEndpoints -> BOOLEAN]
  /\ neonResponse \in
       {NoResult,
        [hasResult |-> TRUE, status |-> "0x1", solanaTransactions |-> <<>>],
        [hasResult |-> TRUE, status |-> "0x0", solanaTransactions |->
           <<[solanaTransactionIsSuccess |-> FALSE, solanaTransactionSignature |-> "s1"]>>]}
  /\ solanaDetails \in
       {[s \in Sigs |-> NoDetails],
        [s \in Sigs |-> [found |-> TRUE, log_messages |-> << <<"a">>, <<"b">> >>]]}
  /\ Disk
  /\ Start

\* debug_transaction on every receipt, for one accepted command line
InitDebug ==
  /\ args_network = "mainnet"
  /\ tx_hash = GoodHash
  /\ args_logs \in BOOLEAN
  /\ txKnown = [e \in 1..NumEndpoints |-> TRUE]
  /\ rcKnown = [e \in 1..NumEndpoints |-> TRUE]
  /\ neonResponse \in Responses
  /\ solanaDetails \in [Sigs -> Details]
  /\ Disk
  /\ Start

(* ------------------------------ actions ------------------------------- *)
\* lines 103-117: network check, hash check, logs directory, phase header
Validate ==
  /\ pc = "main"
  /\ IF args_network \notin solana
       THEN /\ out' = Append(out, Line("Network not found"))
            /\ exitCode' = 1
            /\ pc' = "exit"
            /\ UNCHANGED <<logsDir, idx>>
       ELSE IF ~ValidHash(tx_hash)
       THEN /\ out' = out \o <<[Line("hash") EXCEPT !.text = tx_hash],
                               Line("Invalid transaction hash")>>
            /\ exitCode' = 1
            /\ pc' = "exit"
            /\ UNCHANGED <<logsDir, idx>>
       ELSE /\ logsDir' = TRUE
            /\ out' = Append(out, Line("Verify transaction exist in operators"))
            /\ idx' = 1
            /\ pc' = "tx_phase"
            /\ UNCHANGED exitCode
  /\ UNCHANGED <<inputs, files, transaction_operator, receipt_operator,
                 debugLocals, calls, writes>>

\* mutant of NextIndex: break out of the loop on the first match
BreakOnMatch(j, result) == IF result THEN NumEndpoints + 1 ELSE j + 1

\* the step of the for statement of lines 118 and 134
NextIndex(j, result) == j + 1

\* the text printed for a check result, lines 120-124
TxResultText(result) == IF result THEN "Exist" ELSE "Not exist"

\* the text printed for a receipt check result, lines 136-141
ReceiptResultText(result) ==
  LET first == IF result THEN "Exist" ELSE "Not exist"
  IN \* a non-empty string is true
     IF first # "" THEN "Exist" ELSE "Not exist"

\* lines 118-125, one iteration
TxCheck ==
  /\ pc = "tx_phase"
  /\ idx <= Len(rpc)
  /\ LET eth_network == rpc[idx]
         result == check_tx_exist(tx_hash, eth_network)
     IN /\ calls' = Append(calls, Call("check_tx_exist", eth_network, tx_hash))
        /\ transaction_operator' = IF result THEN eth_network ELSE transaction_operator
        /\ out' = Append(out, [Line("tx") EXCEPT !.ep = eth_network,
                                                 !.result = TxResultText(result)])
        /\ idx' = NextIndex(idx, result)
  /\ UNCHANGED <<inputs, logsDir, files, pc, receipt_operator, debugLocals,
                 writes, exitCode>>

\* lines 127-133
TxPhaseEnd ==
  /\ pc = "tx_phase"
  /\ idx > Len(rpc)
  /\ IF transaction_operator = None
       THEN /\ out' = Append(out, Line("Transaction not found in operators"))
            /\ exitCode' = 1
            /\ pc' = "exit"
            /\ UNCHANGED idx
       ELSE /\ out' = Append(out, Line("Verify receipt exist in operators"))
            /\ idx' = 1
            /\ pc' = "receipt_phase"
            /\ UNCHANGED exitCode
  /\ UNCHANGED <<inputs, logsDir, files, transaction_operator, receipt_operator,
                 debugLocals, calls, writes>>

\* lines 134-142, one iteration
ReceiptCheck ==
  /\ pc = "receipt_phase"
  /\ idx <= Len(rpc)
  /\ LET eth_network == rpc[idx]
         result == check_receipt_exist(tx_hash, eth_network)
     IN /\ calls' = Append(calls, Call("check_receipt_exist", eth_network, tx_hash))
        /\ receipt_operator' = IF result THEN eth_network ELSE receipt_operator
        /\ out' = Append(out, [Line("receipt") EXCEPT !.ep = eth_network,
                                                      !.result = ReceiptResultText(result)])
        /\ idx' = NextIndex(idx, result)
  /\ UNCHANGED <<inputs, logsDir, files, pc, transaction_operator, debugLocals,
                 writes, exitCode>>

\* lines 144-149
ReceiptPhaseEnd ==
  /\ pc = "receipt_phase"
  /\ idx > Len(rpc)
  /\ IF receipt_operator = None
       THEN /\ out' = Append(out, Line("Receipt not found in operators"))
            /\ exitCode' = 1
            /\ pc' = "exit"
       ELSE /\ out' = Append(out, Line("Provide more information about transaction"))
            /\ pc' = "debug"
            /\ UNCHANGED exitCode
  /\ UNCHANGED <<inputs, logsDir, files, idx, transaction_operator,
                 receipt_operator, debugLocals, calls, writes>>

\* debug_transaction, lines 24-57: up to the lookup loop
DebugFetch ==
  /\ pc = "debug"
  /\ LET operator_url == receipt_operator
         tx_info == neonResponse
         post == Call("neon_getTransactionReceipt", operator_url, tx_hash)
         gascall == Call("eth_getTransaction", operator_url, tx_hash)
         st == StatusOf(tx_info)
         failed == FailedSignatures(tx_info.solanaTransactions)
         head == <<[Line("Status") EXCEPT !.result = st],
                   Line("Estimated gas"),
                   [Line("Solana transactions") EXCEPT
                      !.n = Len(tx_info.solanaTransactions)]>>
     IN IF ~tx_info.hasResult
          THEN /\ calls' = Append(calls, post)
               /\ out' = Append(out, Line("Got a problem with transaction info"))
               /\ pc' = "after_debug"
               /\ UNCHANGED debugLocals
          ELSE /\ calls' = calls \o <<post, gascall>>
               /\ status' = st
               /\ IF st = "Success"
                    THEN /\ out' = out \o head
                         /\ pc' = "after_debug"
                         /\ UNCHANGED <<failed_sol_tx, iterated, k, reasons>>
                    ELSE /\ failed_sol_tx' = [kind |-> "list", val |-> failed]
                         /\ reasons' = <<>>
                         /\ IF Len(failed) = 0
                              THEN /\ out' = out \o head \o
                                        <<Line("is failed but no failed solana transaction found")>>
                                   /\ pc' = "after_debug"
                                   /\ UNCHANGED <<iterated, k>>
                              ELSE /\ out' = out \o head \o
                                        <<[Line("Solana failed transactions") EXCEPT
                                             !.n = Len(failed)]>>
                                   /\ iterated' = failed
                                   /\ k' = 1
                                   /\ pc' = "lookup"
  /\ UNCHANGED <<inputs, logsDir, files, idx, transaction_operator,
                 receipt_operator, writes, exitCode>>

\* mutant of Lookup: a missing settlement transaction is skipped (continue)
\* instead of ending the call (return)
LookupSkipsMissing ==
  /\ pc = "lookup"
  /\ k <= Len(iterated)
  /\ LET sig == iterated[k]
         solana_tx_details == solanaDetails[sig]
         logs == solana_tx_details.log_messages
     IN /\ failed_sol_tx' = [kind |-> "str", val |-> <<sig>>]
        /\ calls' = Append(calls, Call("solana_getTransaction", args_network, <<sig>>))
        /\ k' = k + 1
        /\ IF ~solana_tx_details.found
             THEN /\ out' = Append(out, Line("is failed but no failed solana transaction found"))
                  /\ UNCHANGED <<reasons, files, writes, pc>>
             ELSE /\ reasons' = DictSet(reasons, sig, logs[Len(logs)])
                  /\ files' = WriteFile(files, sig, Join(logs))
                  /\ writes' = Append(writes, sig)
                  /\ UNCHANGED <<out, pc>>
  /\ UNCHANGED <<inputs, logsDir, idx, transaction_operator, receipt_operator,
                 status, iterated, exitCode>>

\* debug_transaction, lines 58-69: one iteration of the lookup loop
Lookup ==
  /\ pc = "lookup"
  /\ k <= Len(iterated)
  /\ LET sig == iterated[k]
         solana_tx_details == solanaDetails[sig]
         logs == solana_tx_details.log_messages
     IN /\ failed_sol_tx' = [kind |-> "str", val |-> <<sig>>]
        /\ calls' = Append(calls, Call("solana_getTransaction", args_network, <<sig>>))
        /\ IF ~solana_tx_details.found
             THEN /\ out' = Append(out, Line("is failed but no failed solana transaction found"))
                  /\ pc' = "after_debug"
                  /\ UNCHANGED <<reasons, files, writes, k>>
             ELSE /\ reasons' = DictSet(reasons, sig, LastLog(logs))
                  /\ files' = WriteFile(files, sig, Join(logs))
                  /\ writes' = Append(writes, sig)
                  /\ k' = k + 1
                  /\ UNCHANGED <<out, pc>>
  /\ UNCHANGED <<inputs, logsDir, idx, transaction_operator, receipt_operator,
                 status, iterated, exitCode>>

\* debug_transaction, lines 71-75: the report after the loop
DebugReport ==
  /\ pc = "lookup"
  /\ k > Len(iterated)
  /\ out' = out \o <<[Line("Failed Solana transaction") EXCEPT !.sigs = failed_sol_tx.val],
                     Line("Reasons:")>>
                \o ReasonLines(reasons)
                \o <<Line("Full log saved in 'logs' folder")>>
  /\ pc' = "after_debug"
  /\ UNCHANGED <<inputs, logsDir, files, idx, transaction_operator,
                 receipt_operator, debugLocals, calls, writes, exitCode>>

\* lines 152-158 and the end of the script
PrintLogs ==
  /\ pc = "after_debug"
  /\ out' = IF args_logs
              THEN out \o <<Line("Logs of failed solana transactions"),
                            [Line("Log files") EXCEPT
                               !.files = {<<s, files[s]>> : s \in DOMAIN files}]>>
              ELSE out
  /\ exitCode' = 0
  /\ pc' = "exit"
  /\ UNCHANGED <<inputs, logsDir, files, idx, transaction_operator,
                 receipt_operator, debugLocals, calls, writes>>

Next ==
  \/ Validate
  \/ TxCheck
  \/ TxPhaseEnd
  \/ ReceiptCheck
  \/ ReceiptPhaseEnd
  \/ DebugFetch
  \/ Lookup
  \/ DebugReport
  \/ PrintLogs

Spec == Init /\ [][Next]_vars
SpecDebug == InitDebug /\ [][Next]_vars

(* ------------------- notions the statements are phrased in ------------ *)
\* ^0x[0-9a-fA-F]{64}$
MatchesHashPattern(h) ==
  /\ Len(h) = 2 + 64
  /\ h[1] = "0"
  /\ h[2] = "x"
  /\ \A j \in 3..Len(h) : h[j] \in HexDigits

CallsOf(op) == LET Is(c) == c.op = op IN SelectSeq(calls, Is)
UrlsOf(op) == [j \in 1..Len(CallsOf(op)) |-> CallsOf(op)[j].url]
Lookups == CallsOf("solana_getTransaction")
LookupSig(j) == Lookups[j].arg[1]
Printed(tag) == \E j \in 1..Len(out) : out[j].tag = tag
LastPrinted == out[Len(out)].tag
IsPrefix(a, b) == Len(a) <= Len(b) /\ \A j \in 1..Len(a) : a[j] = b[j]
MaxOf(S) == CHOOSE x \in S : \A y \in S : y <= x

\* the lines debug_transaction printed: after its header, without the --logs part
DebugLines ==
  LET h == CHOOSE j \in 1..Len(out) :
             out[j].tag = "Provide more information about transaction"
      OfDebug(l) == l.tag \notin {"Logs of failed solana transactions", "Log files"}
  IN SelectSeq(SubSeq(out, h + 1, Len(out)), OfDebug)
DebugTags == [j \in 1..Len(DebugLines) |-> DebugLines[j].tag]

\* debug_transaction was called and has returned
DebugReturned ==
  /\ pc \in {"after_debug", "exit"}
  /\ CallsOf("neon_getTransactionReceipt") # <<>>

\* the sub-transactions of the extended receipt flagged unsuccessful
SubTxs == neonResponse.solanaTransactions
FlaggedIdx == {j \in 1..Len(SubTxs) : SubTxs[j].solanaTransactionIsSuccess = FALSE}
FlaggedSigs ==
  LET Flagged(t) == t.solanaTransactionIsSuccess = FALSE
      sel == SelectSeq(SubTxs, Flagged)
  IN [j \in 1..Len(sel) |-> sel[j].solanaTransactionSignature]
FailedReceipt == neonResponse.hasResult /\ neonResponse.status = "0x0"
SuccessReceipt == neonResponse.hasResult /\ neonResponse.status # "0x0"

\* lines joined by newline, built from the last line backwards
RECURSIVE JoinedByNewline(_)
JoinedByNewline(lines) ==
  IF Len(lines) = 0 THEN <<>>
  ELSE IF Len(lines) = 1 THEN lines[1]
  ELSE JoinedByNewline(SubSeq(lines, 1, Len(lines) - 1)) \o <<"\n">> \o lines[Len(lines)]

\* the last line of a text file: what follows its last newline
LastLineOf(content) ==
  LET nl == {j \in 1..Len(content) : content[j] = "\n"}
  IN IF nl = {} THEN content ELSE SubSeq(content, MaxOf(nl) + 1, Len(content))

ReasonsReported(sig) ==
  {out[j].text : j \in {i \in 1..Len(out) : out[i].tag = "reason" /\ out[i].sigs = <<sig>>}}

\* the logs directory after the first n lookups of this call wrote their files
RECURSIVE FilesAfterLookups(_)
FilesAfterLookups(n) ==
  IF n = 0 THEN files0
  ELSE LET prev == FilesAfterLookups(n - 1)
           sig == LookupSig(n)
       IN [s \in DOMAIN prev \cup {sig} |->
             IF s = sig THEN JoinedByNewline(solanaDetails[sig].log_messages)
             ELSE prev[s]]

(* ------------------------------- C1 ----------------------------------- *)
\* C1: with a configured network, a hash that does not match
\* ^0x[0-9a-fA-F]{64}$ makes the run print 'Invalid transaction hash' and
\* exit with code 1 before any network call.
C1_InvalidHashRejected ==
  (args_network \in solana /\ ~MatchesHashPattern(tx_hash) /\ pc # "main")
    => /\ pc = "exit"
       /\ exitCode = 1
       /\ LastPrinted = "Invalid transaction hash"
       /\ calls = <<>>

(* ------------------------------- C2 ----------------------------------- *)
\* C2: the endpoint handed to debug_transaction is the first endpoint, in
\* configuration order, whose receipt check returned true.
C2_DebugsFirstReceiptEndpoint ==
  \A j \in 1..Len(calls) :
    calls[j].op = "neon_getTransactionReceipt"
      => \E n \in 1..Len(rpc) :
           /\ rpc[n] = calls[j].url
           /\ rcKnown[rpc[n]]
           /\ \A m \in 1..(n - 1) : ~rcKnown[rpc[m]]

(* ------------------------------- C3 ----------------------------------- *)
C3_Conclusion ==
  /\ Len(Lookups) = Cardinality(FlaggedIdx)
  /\ Cardinality({writes[j] : j \in 1..Len(writes)}) = Cardinality(FlaggedIdx)
  /\ \A j \in FlaggedIdx :
       LET sig == SubTxs[j].solanaTransactionSignature
       IN /\ sig \in DOMAIN files
          /\ files[sig] = JoinedByNewline(solanaDetails[sig].log_messages)
          /\ ReasonsReported(sig) = {LastLineOf(files[sig])}

\* C3 as stated: for every failed receipt with N >= 1 flagged sub-transactions
\* (same signature twice and missing settlement transactions included) the call
\* makes N lookups and writes N distinct files, each the log lines joined by
\* newline, and reports as reason the last line of the file.
C3_AsStated ==
  (pc = "exit" /\ DebugReturned /\ FailedReceipt /\ FlaggedIdx # {})
    => C3_Conclusion

C3_Covered ==
  /\ FailedReceipt
  /\ FlaggedIdx # {}
  /\ \A a, b \in FlaggedIdx :
       a # b => SubTxs[a].solanaTransactionSignature # SubTxs[b].solanaTransactionSignature
  /\ \A j \in FlaggedIdx :
       LET d == solanaDetails[SubTxs[j].solanaTransactionSignature]
       IN /\ d.found
          /\ \A l \in 1..Len(d.log_messages) :
               \A c \in 1..Len(d.log_messages[l]) : d.log_messages[l][c] # "\n"

\* C3 amended: the same, for receipts whose flagged signatures are pairwise
\* distinct, whose settlement transactions are all found, and whose log lines
\* hold no newline character.
C3_DistinctFoundLookups ==
  (pc = "exit" /\ DebugReturned /\ C3_Covered) => C3_Conclusion

C3_Witness ==
  /\ pc = "exit"
  /\ DebugReturned
  /\ C3_Covered
  /\ Cardinality(FlaggedIdx) = 2
  /\ files0 # <<>>
  /\ Len(writes) = 2

(* ------------------------------- C4 ----------------------------------- *)
TxPhaseDone ==
  Printed("Transaction not found in operators") \/ Printed("Verify receipt exist in operators")
ReceiptPhaseDone ==
  Printed("Receipt not found in operators")
    \/ Printed("Provide more information about transaction")
PhasesEntered == Printed("Verify transaction exist in operators")
NoEndpointHasTx == \A e \in 1..NumEndpoints : ~txKnown[rpc[e]]
NoEndpointHasReceipt == \A e \in 1..NumEndpoints : ~rcKnown[rpc[e]]

\* C4: no endpoint reports the transaction: 'Transaction not found in
\* operators', exit 1, no call but the existence checks; some endpoint reports it
\* and none reports a receipt: 'Receipt not found in operators', exit 1, no call
\* of debug_transaction; each phase that runs queries every endpoint once, in
\* configuration order.
C4_PhasesAndNotFound ==
  /\ IsPrefix(UrlsOf("check_tx_exist"), rpc)
  /\ IsPrefix(UrlsOf("check_receipt_exist"), rpc)
  /\ TxPhaseDone => UrlsOf("check_tx_exist") = rpc
  /\ ReceiptPhaseDone => UrlsOf("check_receipt_exist") = rpc
  /\ (pc = "exit" /\ PhasesEntered /\ NoEndpointHasTx)
       => /\ LastPrinted = "Transaction not found in operators"
          /\ exitCode = 1
          /\ \A j \in 1..Len(calls) : calls[j].op = "check_tx_exist"
  /\ (pc = "exit" /\ PhasesEntered /\ ~NoEndpointHasTx /\ NoEndpointHasReceipt)
       => /\ LastPrinted = "Receipt not found in operators"
          /\ exitCode = 1
          /\ \A j \in 1..Len(calls) :
               calls[j].op \in {"check_tx_exist", "check_receipt_exist"}

C4_Witness ==
  /\ pc = "exit"
  /\ txKnown[rpc[1]]
  /\ LastPrinted = "Receipt not found in operators"
  /\ Len(calls) = 2 * NumEndpoints

(* ------------------------------- C5 ----------------------------------- *)
\* C5: the exit code is 1 exactly when the network is not configured, the
\* hash is invalid, no endpoint reports the transaction or no endpoint reports a
\* receipt; every other run exits 0, and --logs printing runs in it.
C5_ExitCodes ==
  pc = "exit"
    => /\ (exitCode = 1) <=>
            (\/ args_network \notin solana
             \/ ~MatchesHashPattern(tx_hash)
             \/ NoEndpointHasTx
             \/ NoEndpointHasReceipt)
       /\ (exitCode # 1) =>
            (/\ exitCode = 0
             /\ (args_logs => Printed("Logs of failed solana transactions")))

\* the exit codes with the hash judged by the test of line 107 instead
ExitCodesByLine107 ==
  pc = "exit"
    => /\ (exitCode = 1) <=>
            (\/ args_network \notin solana
             \/ ~ValidHash(tx_hash)
             \/ NoEndpointHasTx
             \/ NoEndpointHasReceipt)
       /\ (exitCode # 1) =>
            (/\ exitCode = 0
             /\ (args_logs => Printed("Logs of failed solana transactions")))

(* ------------------------------- C6 ----------------------------------- *)
\* C6: on a receipt with success status debug_transaction prints status, gas
\* and count and returns: no settlement lookup, no file created or modified,
\* whatever the flags of the sub-transactions.
C6_SuccessShortCircuits ==
  (DebugReturned /\ SuccessReceipt)
    => /\ Lookups = <<>>
       /\ writes = <<>>
       /\ files = files0
       /\ DebugTags = <<"Status", "Estimated gas", "Solana transactions">>
       /\ DebugLines[1].result = "Success"

C6_Witness ==
  /\ pc = "exit"
  /\ DebugReturned
  /\ SuccessReceipt
  /\ FlaggedIdx # {}
  /\ \A s \in Sigs : solanaDetails[s].found
  /\ files0 # <<>>
  /\ exitCode = 0

(* ------------------------------- C7 ----------------------------------- *)
MissingLookup == \E j \in 1..Len(Lookups) : ~solanaDetails[LookupSig(j)].found

\* C7: when a settlement lookup returns nothing the call prints a diagnostic
\* and ends: no later lookup, no reason line and no summary for any signature,
\* and the files written for the earlier signatures stay as written.
C7_MissingLookupAborts ==
  MissingLookup
    => /\ \A j \in 1..Len(Lookups) :
            solanaDetails[LookupSig(j)].found <=> j < Len(Lookups)
       /\ pc \in {"after_debug", "exit"}
       /\ DebugTags[Len(DebugTags)] = "is failed but no failed solana transaction found"
       /\ ~Printed("reason")
       /\ ~Printed("Reasons:")
       /\ ~Printed("Failed Solana transaction")
       /\ writes = [j \in 1..(Len(Lookups) - 1) |-> LookupSig(j)]
       /\ files = FilesAfterLookups(Len(Lookups) - 1)

C7_Witness ==
  /\ pc = "exit"
  /\ MissingLookup
  /\ Len(Lookups) = 2
  /\ LookupSig(1) \in DOMAIN files
  /\ files # files0

(* ------------------------------- C8 ----------------------------------- *)
\* C8: on a receipt with failed status and no sub-transaction flagged
\* unsuccessful the call prints the inconsistency message after status, gas and
\* count and stops: no settlement lookup, no file written.
C8_FailedWithoutFlagged ==
  (DebugReturned /\ FailedReceipt /\ FlaggedIdx = {})
    => /\ Lookups = <<>>
       /\ writes = <<>>
       /\ files = files0
       /\ DebugTags = <<"Status", "Estimated gas", "Solana transactions",
                        "is failed but no failed solana transaction found">>
       /\ DebugLines[1].result = "Failed"

C8_Witness ==
  /\ pc = "exit"
  /\ DebugReturned
  /\ FailedReceipt
  /\ FlaggedIdx = {}
  /\ Len(SubTxs) = 2
  /\ \A s \in Sigs : solanaDetails[s].found

(* ------------------------------- C9 ----------------------------------- *)
\* C9: the final 'Failed Solana transaction' line names all the flagged
\* signatures, in receipt order.
C9_ReportNamesAllFailed ==
  \A j \in 1..Len(out) :
    out[j].tag = "Failed Solana transaction" => out[j].sigs = FlaggedSigs

(* ------------------------------- C10 ---------------------------------- *)
\* C10: each endpoint's line says 'Exist' exactly when its own check
\* returned true, in both phases, and some endpoint is reported 'Exist' in the
\* receipt phase exactly when the run does not stop with 'Receipt not found in
\* operators'.
C10_LinesReflectChecks ==
  /\ \A j \in 1..Len(out) :
       /\ out[j].tag = "tx" =>
            /\ out[j].result \in {"Exist", "Not exist"}
            /\ out[j].result = "Exist" <=> txKnown[out[j].ep]
       /\ out[j].tag = "receipt" =>
            /\ out[j].result \in {"Exist", "Not exist"}
            /\ out[j].result = "Exist" <=> rcKnown[out[j].ep]
  /\ ReceiptPhaseDone =>
       ((\E j \in 1..Len(out) : out[j].tag = "receipt" /\ out[j].result = "Exist")
          <=> ~Printed("Receipt not found in operators"))

====
